---- MODULE Spec2Model ----
(***************************************************************************)
(* Model of django-payments (devkral fork): the Payment record of          *)
(* payments/models.py, its capture / release / refund accounting, the      *)
(* status_changed signal, the attribute proxy over extra_data, the lazy    *)
(* token generation of BasePayment.save and the CashOnDeliveryProvider of  *)
(* payments/advance_payment/__init__.py.                                   *)
(*                                                                         *)
(* Decimal amounts are integers (minor currency units).  An optional       *)
(* argument or result is a sequence: <<>> is Python's None, <<a>> is a.    *)
(***************************************************************************)
EXTENDS Integers, Sequences, FiniteSets, TLC

VARIABLES
    provider,   \* the provider provider_factory(payment.variant) resolves to
    payment,    \* the in-memory Payment instance
    db,         \* the persisted row of that payment
    signals,    \* status_changed dispatches of the last call, in order
    calls,      \* provider methods invoked by the last call, in order
    changes,    \* statuses passed to change_status during the last call
    last,       \* the last call: operation, arguments, outcome, prior state
    proxy,      \* attribute proxy: outcome of the last attrs access
    token,      \* per payment: the in-memory token ("" = none yet)
    rows,       \* per payment: the token of its persisted row (<<>> = no row)
    pool,       \* number of further rows stored by other payments
    pc,         \* per payment: position inside BasePayment.save
    tries,      \* per payment: the set `tries` of save (concrete tokens)
    triesPool,  \* per payment: how many distinct pool tokens are in `tries`
    attempts    \* per payment: uuid4() calls made by the running save

lifecycleVars == <<provider, payment, db, signals, calls, changes, last>>
saveVars == <<token, rows, pool, pc, tries, triesPool, attempts>>
vars == <<provider, payment, db, signals, calls, changes, last, proxy,
          token, rows, pool, pc, tries, triesPool, attempts>>

----------------------------------------------------------------------------
(* Bounds of the model *)

MaxTotal == 2       \* payment.total ranges over 0..MaxTotal
MaxAmount == 2      \* amount arguments range over -MaxAmount..MaxAmount
MaxCaptured == 3    \* calls are explored while |captured_amount| <= MaxCaptured

----------------------------------------------------------------------------
(* payments.PaymentStatus and payments.FraudStatus *)

WAITING == "waiting"
PREAUTH == "preauth"
CONFIRMED == "confirmed"
REJECTED == "rejected"
REFUNDED == "refunded"
ERROR == "error"
INPUT == "input"

PaymentStatus == {WAITING, PREAUTH, CONFIRMED, REJECTED, REFUNDED, ERROR, INPUT}

FraudStatus == {"unknown", "accept", "reject", "review"}

None == <<>>
Some(x) == <<x>>

Min(a, b) == IF a <= b THEN a ELSE b

\* Python truthiness of an optional Decimal: None and Decimal(0) are falsy.
Falsy(amount) == amount = None \/ amount[1] = 0

Amounts == {None} \cup {Some(a) : a \in (0 - MaxAmount)..MaxAmount}

Ok == "none"

\* Result of a call: the context it leaves, the exception raised (Ok for a
\* normal return) and the value returned.
Result(c, exc, ret) == [c |-> c, exc |-> exc, ret |-> ret]

----------------------------------------------------------------------------
(* BasePayment.save for a payment that already has its token: the row      *)
(* takes every field of the instance.                                      *)

save(c) == [c EXCEPT !.db = c.payment]

\* status_changed.send_robust: every receiver runs and sees the instance and
\* the row as they are at this moment; receiver errors are swallowed.
send_robust(c) ==
    [c EXCEPT !.signals = Append(@, [status |-> c.payment.status,
                                     saved_status |-> c.db.status,
                                     saved_message |-> c.db.message,
                                     message |-> c.payment.message,
                                     nchanges |-> Len(c.changes)])]

change_status_signal_first(c, status, message) ==
    LET c1 == [c EXCEPT !.payment.status = status,
                        !.payment.message = message,
                        !.changes = Append(@, status)]
    IN save(send_robust(c1))

change_status(c, status, message) ==
    LET c1 == [c EXCEPT !.payment.status = status,
                        !.payment.message = message,
                        !.changes = Append(@, status)]
    IN send_robust(save(c1))

----------------------------------------------------------------------------
(* Provider adapters.  A provider method receives the context (the payment *)
(* it is handed is c.payment) and yields a Result.                         *)
(*                                                                         *)
(* The provider object is taken as constructed: the methods of             *)
(* CashOnDeliveryProvider are modelled as written, whatever its __init__   *)
(* (which names PaydirektProvider) does; `capture` is the provider's       *)
(* _capture flag read by process_data.                                     *)

TypeError == "TypeError"
ValueError == "ValueError"
PaymentError == "PaymentError"

\* CashOnDeliveryProvider.capture(self, payment, amount=None).  `surplus` is
\* the number of positional arguments passed beyond (payment, amount):
\* Python rejects such a call with TypeError before the body runs.
CashOnDeliveryProvider_capture(c, amount, surplus) ==
    IF surplus > 0
    THEN Result(c, TypeError, None)
    ELSE Result(c, Ok, Some(IF Falsy(amount) THEN c.payment.total ELSE amount[1]))

CashOnDeliveryProvider_release(c) ==
    Result(change_status(c, CONFIRMED, ""), Ok, None)

CashOnDeliveryProvider_refund(c, amount) ==
    LET amt == IF Falsy(amount) THEN c.payment.total ELSE amount[1]
    IN Result(change_status(c, REFUNDED, ""), Ok, Some(amt))

CashOnDeliveryProvider_process_data(c) ==
    IF c.provider.capture
    THEN change_status(c, CONFIRMED, "")
    ELSE change_status(c, PREAUTH, "")

\* Any other gateway adapter: its capture / release / refund talk to the
\* gateway only; the gateway accepts (gw = "ok") or the adapter raises
\* PaymentError.  Its process_data reports the gateway's verdict.
Gateway == {"ok", "fail"}

GatewayProvider_call(c, gw, ret) ==
    IF gw = "ok" THEN Result(c, Ok, ret) ELSE Result(c, PaymentError, None)

GatewayProvider_process_data(c) ==
    IF c.provider.capture
    THEN change_status(c, CONFIRMED, "")
    ELSE change_status(c, PREAUTH, "")

Called(c, method, amount, final) ==
    [c EXCEPT !.calls = Append(@, [method |-> method, amount |-> amount,
                                   final |-> final])]

\* provider.capture(self, amount, final) at models.py:92
provider_capture(c, amount, final, gw) ==
    LET c1 == Called(c, "capture", Some(amount), final)
    IN IF c.provider.kind = "cod"
       THEN CashOnDeliveryProvider_capture(c1, Some(amount), 1)
       ELSE GatewayProvider_call(c1, gw, Some(amount))

\* provider.release(self) at models.py:103
provider_release(c, gw) ==
    LET c1 == Called(c, "release", None, FALSE)
    IN IF c.provider.kind = "cod"
       THEN CashOnDeliveryProvider_release(c1)
       ELSE GatewayProvider_call(c1, gw, None)

\* provider.refund(self, amount) at models.py:117
provider_refund(c, amount, gw) ==
    LET c1 == Called(c, "refund", Some(amount), FALSE)
    IN IF c.provider.kind = "cod"
       THEN CashOnDeliveryProvider_refund(c1, Some(amount))
       ELSE GatewayProvider_call(c1, gw, Some(amount))

----------------------------------------------------------------------------
(* AbstractBasePayment *)

change_fraud_status_unchecked(c, status, message, commit) ==
    LET c1 == [c EXCEPT !.payment.fraud_status = status,
                        !.payment.fraud_message = message]
    IN Result(IF commit THEN save(c1) ELSE c1, Ok, None)

change_fraud_status(c, status, message, commit) ==
    IF status \notin FraudStatus
    THEN Result(c, ValueError, None)
    ELSE LET c1 == [c EXCEPT !.payment.fraud_status = status,
                             !.payment.fraud_message = message]
         IN Result(IF commit THEN save(c1) ELSE c1, Ok, None)

capture_charge_early(c, amount, final, gw) ==
    LET amt == IF Falsy(amount)
               THEN Min(c.payment.total - c.payment.captured_amount, 0)
               ELSE amount[1]
        c0 == [c EXCEPT !.payment.captured_amount = @ + amt]
        r == provider_capture(c0, amt, final, gw)
    IN IF r.exc # Ok
       THEN r
       ELSE Result(IF final THEN change_status(r.c, CONFIRMED, "") ELSE r.c,
                   Ok, Some(amt))

\* models.py:89-96, the part of capture behind the status guard
capture_charge(c, amount, final, gw) ==
    LET amt == IF Falsy(amount)
               THEN Min(c.payment.total - c.payment.captured_amount, 0)
               ELSE amount[1]
        r == provider_capture(c, amt, final, gw)
    IN IF r.exc # Ok
       THEN r
       ELSE LET c1 == [r.c EXCEPT !.payment.captured_amount = @ + amt]
            IN Result(IF final THEN change_status(c1, CONFIRMED, "") ELSE c1,
                      Ok, Some(amt))

capture_unguarded(c, amount, final, gw) == capture_charge(c, amount, final, gw)

capture(c, amount, final, gw) ==
    IF c.payment.status # PREAUTH
    THEN Result(c, ValueError, None)
    ELSE capture_charge(c, amount, final, gw)

release_unguarded(c, gw) ==
    LET r == provider_release(c, gw)
    IN IF r.exc # Ok
       THEN r
       ELSE Result(change_status(r.c, REFUNDED, ""), Ok, None)

release(c, gw) ==
    IF c.payment.status # PREAUTH
    THEN Result(c, ValueError, None)
    ELSE LET r == provider_release(c, gw)
         IN IF r.exc # Ok
            THEN r
            ELSE Result(change_status(r.c, REFUNDED, ""), Ok, None)

refund_pay_back_unchecked(c, amount, gw) ==
    LET amt == IF Falsy(amount) THEN c.payment.captured_amount ELSE amount[1]
        r == provider_refund(c, amt, gw)
    IN IF r.exc # Ok
       THEN r
       ELSE LET c1 == [r.c EXCEPT !.payment.captured_amount = @ - amt]
            IN Result(IF c1.payment.captured_amount <= 0
                         /\ c1.payment.status # REFUNDED
                      THEN change_status(c1, REFUNDED, "")
                      ELSE c1,
                      Ok, Some(amt))

\* models.py:110-122, the part of refund behind the status guard
refund_pay_back(c, amount, gw) ==
    IF ~Falsy(amount) /\ amount[1] > c.payment.captured_amount
    THEN Result(c, ValueError, None)
    ELSE LET amt == IF Falsy(amount) THEN c.payment.captured_amount
                    ELSE amount[1]
             r == provider_refund(c, amt, gw)
         IN IF r.exc # Ok
            THEN r
            ELSE LET c1 == [r.c EXCEPT !.payment.captured_amount = @ - amt]
                 IN Result(IF c1.payment.captured_amount <= 0
                              /\ c1.payment.status # REFUNDED
                           THEN change_status(c1, REFUNDED, "")
                           ELSE c1,
                           Ok, Some(amt))

refund_unguarded(c, amount, gw) == refund_pay_back(c, amount, gw)

refund(c, amount, gw) ==
    IF c.payment.status # CONFIRMED
    THEN Result(c, ValueError, None)
    ELSE refund_pay_back(c, amount, gw)

\* provider.process_data(payment, request): the gateway's callback
process_data(c) ==
    IF c.provider.kind = "cod"
    THEN CashOnDeliveryProvider_process_data(c)
    ELSE GatewayProvider_process_data(c)

----------------------------------------------------------------------------
(* The calls a host application and the gateway make on one payment *)

FraudInputs == FraudStatus \cup {"fraud", REJECTED}
Messages == {"", "flagged"}

\* The context a call starts in: nothing dispatched or invoked yet.
Ctx == [payment |-> payment, db |-> db, provider |-> provider,
        signals |-> <<>>, calls |-> <<>>, changes |-> <<>>]

InRange(r) ==
    /\ r.c.payment.captured_amount <= MaxCaptured
    /\ r.c.payment.captured_amount >= 0 - MaxCaptured

Returned(r, op, args) ==
    /\ InRange(r)
    /\ payment' = r.c.payment
    /\ db' = r.c.db
    /\ signals' = r.c.signals
    /\ calls' = r.c.calls
    /\ changes' = r.c.changes
    /\ last' = [op |-> op, args |-> args, exc |-> r.exc, ret |-> r.ret,
                pre |-> payment, predb |-> db]
    /\ UNCHANGED <<provider, proxy, saveVars>>

CallProcessData ==
    Returned(Result(process_data(Ctx), Ok, None), "process_data", [none |-> TRUE])

CallCapture ==
    \E amount \in Amounts, final \in BOOLEAN, gw \in Gateway :
        Returned(capture(Ctx, amount, final, gw), "capture",
                 [amount |-> amount, final |-> final])

CallRelease ==
    \E gw \in Gateway :
        Returned(release(Ctx, gw), "release", [none |-> TRUE])

CallRefund ==
    \E amount \in Amounts, gw \in Gateway :
        Returned(refund(Ctx, amount, gw), "refund", [amount |-> amount])

CallChangeFraudStatus ==
    \E status \in FraudInputs, message \in Messages, commit \in BOOLEAN :
        Returned(change_fraud_status(Ctx, status, message, commit),
                 "change_fraud_status",
                 [status |-> status, message |-> message, commit |-> commit])

----------------------------------------------------------------------------
(* PaymentAttributeProxy: attributes kept as a JSON object in extra_data.   *)
(*                                                                         *)
(* A text is <<>> (the empty string, which is no JSON document) or <<doc>>, *)
(* the serialisation of the JSON object doc.  A dict, and a JSON object,   *)
(* is a function on Keys whose missing keys map to Absent.                 *)

AttributeError == "AttributeError"

Keys == {"a", "b", "_payment"}

Absent == [t |-> "absent", v |-> <<>>]
PyStr(x) == [t |-> "str", v |-> <<x>>]
PyList(x) == [t |-> "list", v |-> x]
PyTuple(x) == [t |-> "tuple", v |-> x]
PyDecimal(x) == [t |-> "Decimal", v |-> <<x>>]
PaymentObject == [t |-> "Payment", v |-> <<>>]

\* The values a caller assigns
Values == {PyStr("x"), PyStr("y"), PyList(<<1, 2>>), PyTuple(<<1, 2>>),
           PyDecimal(1)}

\* json.dumps of one value: a tuple is written as an array like a list; a
\* Decimal is not serialisable.
Serializable(v) == v.t \in {"absent", "str", "list", "tuple"}

JsonOf(v) ==
    CASE v.t = "str" -> [t |-> "string", v |-> v.v]
      [] v.t \in {"list", "tuple"} -> [t |-> "array", v |-> v.v]
      [] OTHER -> Absent

\* json.loads of one value: an array is read as a list
PyOf(j) ==
    CASE j.t = "string" -> [t |-> "str", v |-> j.v]
      [] j.t = "array" -> [t |-> "list", v |-> j.v]
      [] OTHER -> Absent

EmptyText == <<>>
EmptyDict == [k \in Keys |-> Absent]

json_dumps(data) ==
    IF \A k \in Keys : Serializable(data[k])
    THEN [exc |-> Ok, text |-> <<[k \in Keys |-> JsonOf(data[k])]>>]
    ELSE [exc |-> TypeError, text |-> EmptyText]

json_loads(text) ==
    IF text = EmptyText
    THEN [exc |-> ValueError, data |-> EmptyDict]
    ELSE [exc |-> Ok, data |-> [k \in Keys |-> PyOf(text[1][k])]]

\* payment.attrs.<item>: `_payment` is a real attribute of the proxy, so
\* __getattr__ is not consulted for it.
getattr(p, item) ==
    IF item = "_payment"
    THEN [exc |-> Ok, ret |-> Some(PaymentObject)]
    ELSE LET data == IF p.extra_data = EmptyText
                     THEN EmptyDict
                     ELSE json_loads(p.extra_data).data
         IN IF data[item] = Absent
            THEN [exc |-> AttributeError, ret |-> None]
            ELSE [exc |-> Ok, ret |-> Some(data[item])]

setattr_replacing(p, key, value) ==
    IF key = "_payment"
    THEN [exc |-> Ok, p |-> p]
    ELSE LET data == [EmptyDict EXCEPT ![key] = value]
             out == json_dumps(data)
         IN IF out.exc # Ok
            THEN [exc |-> out.exc, p |-> p]
            ELSE [exc |-> Ok, p |-> [p EXCEPT !.extra_data = out.text]]

\* payment.attrs.<key> = value: `_payment` rebinds the reference of the
\* proxy object just created by the attrs property and stores nothing.
setattr(p, key, value) ==
    IF key = "_payment"
    THEN [exc |-> Ok, p |-> p]
    ELSE LET loaded == json_loads(p.extra_data)
             data0 == IF loaded.exc = ValueError THEN EmptyDict ELSE loaded.data
             data == [data0 EXCEPT ![key] = value]
             out == json_dumps(data)
         IN IF out.exc # Ok
            THEN [exc |-> out.exc, p |-> p]
            ELSE [exc |-> Ok, p |-> [p EXCEPT !.extra_data = out.text]]

AttrSet ==
    \E key \in Keys, value \in Values :
        LET r == setattr(payment, key, value)
        IN /\ payment' = r.p
           /\ proxy' = [op |-> "set", key |-> key, exc |-> r.exc, ret |-> None,
                        written |-> IF r.exc = Ok
                                    THEN [proxy.written EXCEPT ![key] = value]
                                    ELSE proxy.written]
           /\ UNCHANGED <<provider, db, signals, calls, changes, last, saveVars>>

AttrGet ==
    \E key \in Keys :
        LET r == getattr(payment, key)
        IN /\ proxy' = [op |-> "get", key |-> key, exc |-> r.exc, ret |-> r.ret,
                        written |-> proxy.written]
           /\ UNCHANGED <<provider, payment, db, signals, calls, changes, last,
                          saveVars>>

NextAttrs == AttrSet \/ AttrGet

----------------------------------------------------------------------------
(* BasePayment.save: lazy token generation.                                 *)
(*                                                                         *)
(* Two payments are saved, each by its own request.  A uuid is a number in *)
(* 1..MaxTokens; NoToken is the empty string.  The table also holds `pool` *)
(* rows of other payments, whose tokens are uuids outside 1..MaxTokens:    *)
(* these are interchangeable, so a save only counts how many distinct ones *)
(* it has tried.                                                           *)

MaxTokens == 2      \* uuid4() values told apart by the model
PoolSize == 100     \* rows of other payments in the table
MaxTries == 100     \* the literal of models.py:172

Payments == {1, 2}
NoToken == 0
Tokens == 1..MaxTokens

\* What uuid4() may return to payment p: a uuid of Tokens, the token of a
\* pool row already in `tries`, or the token of a pool row not yet tried.
Uuid(n) == [kind |-> "uuid", n |-> n, tried |-> FALSE]
PoolToken(tried) == [kind |-> "pool", n |-> 0, tried |-> tried]

uuid4(p) ==
    {Uuid(n) : n \in Tokens}
        \cup (IF triesPool[p] > 0 THEN {PoolToken(TRUE)} ELSE {})
        \cup (IF triesPool[p] < pool THEN {PoolToken(FALSE)} ELSE {})

\* token in tries
InTries(p, g) == IF g.kind = "uuid" THEN g.n \in tries[p] ELSE g.tried

\* len(tries)
LenTries(p) == Cardinality(tries[p]) + triesPool[p]

\* _default_manager.filter(token=token).exists()
exists(g) ==
    IF g.kind = "uuid" THEN \E q \in Payments : rows[q] = Some(g.n) ELSE TRUE

\* models.py:167-169: entering save
SaveBegin(p) ==
    /\ pc[p] = "idle"
    /\ IF token[p] = NoToken
       THEN /\ pc' = [pc EXCEPT ![p] = "loop"]
            /\ tries' = [tries EXCEPT ![p] = {}]
            /\ triesPool' = [triesPool EXCEPT ![p] = 0]
            /\ attempts' = [attempts EXCEPT ![p] = 0]
       ELSE /\ pc' = [pc EXCEPT ![p] = "write"]
            /\ UNCHANGED <<tries, triesPool, attempts>>
    /\ UNCHANGED <<token, rows, pool>>
    /\ UNCHANGED <<lifecycleVars, proxy>>

\* models.py:170-178: one iteration of the loop.  The model follows a save
\* for MaxTries + 2 iterations.
SaveTry(p) ==
    /\ pc[p] = "loop"
    /\ attempts[p] < MaxTries + 2
    /\ \E g \in uuid4(p) :
          /\ attempts' = [attempts EXCEPT ![p] = @ + 1]
          /\ IF InTries(p, g) /\ LenTries(p) >= MaxTries
             THEN /\ pc' = [pc EXCEPT ![p] = "SystemExit"]
                  /\ UNCHANGED <<token, tries, triesPool>>
             ELSE IF ~exists(g)
                  THEN /\ token' = [token EXCEPT ![p] = g.n]
                       /\ pc' = [pc EXCEPT ![p] = "write"]
                       /\ UNCHANGED <<tries, triesPool>>
                  ELSE /\ tries' = [tries EXCEPT ![p] =
                                      IF g.kind = "uuid" THEN @ \cup {g.n} ELSE @]
                       /\ triesPool' = [triesPool EXCEPT ![p] =
                                      IF g.kind = "pool" /\ ~g.tried
                                      THEN @ + 1 ELSE @]
                       /\ UNCHANGED <<token, pc>>
    /\ UNCHANGED <<rows, pool>>
    /\ UNCHANGED <<lifecycleVars, proxy>>

\* models.py:180: super().save() writes the row.  The token column carries no
\* unique constraint, so the write is never refused.
SaveWrite(p) ==
    /\ pc[p] = "write"
    /\ rows' = [rows EXCEPT ![p] = Some(token[p])]
    /\ pc' = [pc EXCEPT ![p] = "idle"]
    /\ UNCHANGED <<token, pool, tries, triesPool, attempts>>
    /\ UNCHANGED <<lifecycleVars, proxy>>

NextSave ==
    \E p \in Payments : SaveBegin(p) \/ SaveTry(p) \/ SaveWrite(p)

\* The payments are stored, each under its own token.
InitSaveIdle ==
    /\ token = [p \in Payments |-> p]
    /\ rows = [p \in Payments |-> Some(p)]
    /\ pool = 0
    /\ pc = [p \in Payments |-> "idle"]
    /\ tries = [p \in Payments |-> {}]
    /\ triesPool = [p \in Payments |-> 0]
    /\ attempts = [p \in Payments |-> 0]

\* Payment 1 is new; payment 2 and PoolSize other payments are stored.
InitSave ==
    /\ token = [p \in Payments |-> IF p = 1 THEN NoToken ELSE 1]
    /\ rows = [p \in Payments |-> IF p = 1 THEN None ELSE Some(1)]
    /\ pool = PoolSize
    /\ pc = [p \in Payments |-> "idle"]
    /\ tries = [p \in Payments |-> {}]
    /\ triesPool = [p \in Payments |-> 0]
    /\ attempts = [p \in Payments |-> 0]

\* Both payments are new and the table is empty.
InitRace ==
    /\ token = [p \in Payments |-> NoToken]
    /\ rows = [p \in Payments |-> None]
    /\ pool = 0
    /\ pc = [p \in Payments |-> "idle"]
    /\ tries = [p \in Payments |-> {}]
    /\ triesPool = [p \in Payments |-> 0]
    /\ attempts = [p \in Payments |-> 0]

InitPayment ==
    /\ provider \in [kind : {"cod", "gateway"}, capture : BOOLEAN]
    /\ \E total \in 0..MaxTotal :
          payment = [status |-> WAITING, message |-> "", captured_amount |-> 0,
                     total |-> total, fraud_status |-> "unknown",
                     fraud_message |-> "", extra_data |-> EmptyText]
    /\ db = payment
    /\ signals = <<>>
    /\ calls = <<>>
    /\ changes = <<>>
    /\ last = [op |-> "none", args |-> [none |-> TRUE], exc |-> Ok,
               ret |-> None, pre |-> payment, predb |-> payment]
    /\ proxy = [op |-> "none", key |-> "", exc |-> Ok, ret |-> None,
                written |-> EmptyDict]

Init == InitPayment /\ InitSaveIdle

\* One payment of the lifecycle above, left alone while rows are saved.
InitQuiet ==
    /\ InitPayment
    /\ provider = [kind |-> "gateway", capture |-> FALSE]
    /\ payment.total = 0

Next ==
    \/ CallProcessData
    \/ CallCapture
    \/ CallRelease
    \/ CallRefund

Spec == Init /\ [][Next]_vars

\* Fraud screening of a payment while the gateway reports on it.
NextFraud ==
    \/ CallChangeFraudStatus
    \/ CallProcessData

SpecFraud == Init /\ [][NextFraud]_vars

\* Reads and writes through payment.attrs
SpecAttrs == Init /\ [][NextAttrs]_vars

\* Saving a new payment into a table that already holds rows
InitSaving == InitQuiet /\ InitSave

SpecSave == InitSaving /\ [][NextSave]_vars

\* Two requests saving two new payments
InitRacing == InitQuiet /\ InitRace

SpecRace == InitRacing /\ [][NextSave]_vars

----------------------------------------------------------------------------
(* Properties of the payment lifecycle *)

\* C1: captured_amount never exceeds total, whatever capture, release and
\* refund calls are made.
C1_CapturedWithinTotal ==
    payment.captured_amount <= payment.total

\* C2: capture on a payment that is not PREAUTH raises ValueError, invokes no
\* provider method, dispatches no status_changed signal and leaves status and
\* captured_amount (in memory and in the row) as they were.
C2_CaptureRequiresPreauth ==
    (last.op = "capture" /\ last.pre.status # PREAUTH) =>
        /\ last.exc = ValueError
        /\ calls = <<>>
        /\ signals = <<>>
        /\ payment.status = last.pre.status
        /\ payment.captured_amount = last.pre.captured_amount
        /\ db = last.predb

C2_Witness ==
    /\ last.op = "capture"
    /\ last.pre.status = CONFIRMED
    /\ last.args.amount = Some(1)
    /\ last.exc = ValueError

\* C3: refund on a payment that is not CONFIRMED raises ValueError, invokes
\* no provider method, dispatches no status_changed signal and leaves status
\* and captured_amount (in memory and in the row) as they were.
C3_RefundRequiresConfirmed ==
    (last.op = "refund" /\ last.pre.status # CONFIRMED) =>
        /\ last.exc = ValueError
        /\ calls = <<>>
        /\ signals = <<>>
        /\ payment.status = last.pre.status
        /\ payment.captured_amount = last.pre.captured_amount
        /\ db = last.predb

C3_Witness ==
    /\ last.op = "refund"
    /\ last.pre.status = PREAUTH
    /\ last.pre.captured_amount = 1
    /\ last.args.amount = Some(1)
    /\ last.exc = ValueError

Rank(status) ==
    CASE status = WAITING -> 0
      [] status = PREAUTH -> 1
      [] status = CONFIRMED -> 2
      [] status = REFUNDED -> 3
      [] OTHER -> 4

\* C4: no call moves the status backward in the order
\* waiting -> preauth -> confirmed -> refunded.
C4_OneDirectional ==
    [][Rank(payment'.status) >= Rank(payment.status)]_vars

\* C7: a full capture (no amount, final) of a PREAUTH payment with nothing
\* captured, once the provider accepted it, leaves the payment CONFIRMED with
\* captured_amount equal to total.
C7_FullCapture ==
    (/\ last.op = "capture"
     /\ last.args.amount = None
     /\ last.args.final
     /\ last.pre.status = PREAUTH
     /\ last.pre.captured_amount = 0
     /\ last.exc = Ok) =>
        /\ payment.status = CONFIRMED
        /\ payment.captured_amount = payment.total

\* C8: each change_status call dispatches exactly one status_changed signal,
\* after the new status and message are saved: the i-th signal of a call is
\* dispatched after the i-th change_status and before the next, and its
\* receivers find the passed status and message in the row.
C8_SignalAfterPersist ==
    /\ Len(signals) = Len(changes)
    /\ \A i \in 1..Len(signals) :
          /\ signals[i].nchanges = i
          /\ signals[i].status = changes[i]
          /\ signals[i].saved_status = changes[i]
          /\ signals[i].saved_message = signals[i].message

C8_Witness ==
    /\ last.op = "release"
    /\ last.exc = Ok
    /\ Len(changes) = 2
    /\ changes[1] # changes[2]

\* C9: fraud_status is always one of unknown, accept, reject, review;
\* change_fraud_status with another value raises ValueError and changes
\* neither the instance's fraud fields nor the row; with a valid value it
\* sets both fields, and saves exactly when commit is true.
C9_FraudStatus ==
    /\ payment.fraud_status \in {"unknown", "accept", "reject", "review"}
    /\ db.fraud_status \in {"unknown", "accept", "reject", "review"}
    /\ last.op = "change_fraud_status" =>
          IF last.args.status \in {"unknown", "accept", "reject", "review"}
          THEN /\ last.exc = Ok
               /\ payment.fraud_status = last.args.status
               /\ payment.fraud_message = last.args.message
               /\ db = IF last.args.commit THEN payment ELSE last.predb
          ELSE /\ last.exc = ValueError
               /\ payment.fraud_status = last.pre.fraud_status
               /\ payment.fraud_message = last.pre.fraud_message
               /\ db = last.predb

C9_Witness ==
    /\ last.op = "change_fraud_status"
    /\ last.args.status = "fraud"
    /\ last.exc = ValueError
    /\ payment.fraud_status = "review"
    /\ db.fraud_status = "unknown"

----------------------------------------------------------------------------
(* Properties of the attribute proxy *)

ReadBack(v) == IF v.t = "tuple" THEN PyList(v.v) ELSE v

----------------------------------------------------------------------------
(* Properties of BasePayment.save *)

\* C5: a save of a tokenless payment stops within the bound of MaxTries
\* token-generation attempts (one more call detects the overrun), whatever
\* uuid4 returns and whatever the table holds.
C5_BoundedTries ==
    \A p \in Payments : attempts[p] <= MaxTries + 1

\* C6: no two persisted payments carry the same token.
C6_TokensUnique ==
    \A p, q \in Payments :
        (p # q /\ rows[p] # None /\ rows[q] # None) => rows[p] # rows[q]

----------------------------------------------------------------------------
(* Properties of refund, release and partial capture *)

\* C11: a refund of a CONFIRMED payment that returns, called with an amount
\* a, 0 <= a <= captured_amount, passes a to the provider, lowers
\* captured_amount by a and returns a; called without an amount it passes,
\* refunds and returns the whole captured_amount.
C11_RefundAmount ==
    (/\ last.op = "refund"
     /\ last.pre.status = CONFIRMED
     /\ last.exc = Ok) =>
        LET asked == IF last.args.amount = None
                     THEN last.pre.captured_amount
                     ELSE last.args.amount[1]
        IN (asked >= 0 /\ asked <= last.pre.captured_amount) =>
              /\ calls[1].method = "refund"
              /\ calls[1].amount = Some(asked)
              /\ payment.captured_amount = last.pre.captured_amount - asked
              /\ last.ret = Some(asked)

\* C12: a refund of a CONFIRMED payment with an amount above captured_amount
\* raises ValueError, invokes no provider method and leaves status and
\* captured_amount as they were.
C12_RefundTooLarge ==
    (/\ last.op = "refund"
     /\ last.pre.status = CONFIRMED
     /\ last.args.amount # None
     /\ last.args.amount[1] > last.pre.captured_amount) =>
        /\ last.exc = ValueError
        /\ calls = <<>>
        /\ signals = <<>>
        /\ payment = last.pre
        /\ db = last.predb

C12_Witness ==
    /\ last.op = "refund"
    /\ last.pre.status = CONFIRMED
    /\ last.pre.captured_amount = 1
    /\ last.args.amount = Some(2)
    /\ last.exc = ValueError

\* C13: release on a payment that is not PREAUTH raises ValueError, invokes
\* no provider method and leaves the payment unchanged; on a PREAUTH payment
\* it invokes the provider's release and, when that returns, the payment is
\* REFUNDED with captured_amount unchanged.
C13_Release ==
    last.op = "release" =>
        IF last.pre.status # PREAUTH
        THEN /\ last.exc = ValueError
             /\ calls = <<>>
             /\ signals = <<>>
             /\ payment = last.pre
             /\ db = last.predb
        ELSE /\ Len(calls) = 1
             /\ calls[1].method = "release"
             /\ last.exc = Ok =>
                   /\ payment.status = REFUNDED
                   /\ payment.captured_amount = last.pre.captured_amount

C13_Witness ==
    /\ last.op = "release"
    /\ last.pre.status = PREAUTH
    /\ last.pre.captured_amount = 1
    /\ last.exc = Ok
    /\ payment.status = REFUNDED

\* C14: while a CashOnDeliveryProvider payment is released, its status is
\* never CONFIRMED and no status_changed signal is dispatched with the
\* status CONFIRMED.
C14_ReleaseNeverConfirms ==
    (last.op = "release" /\ provider.kind = "cod") =>
        /\ \A i \in 1..Len(changes) : changes[i] # CONFIRMED
        /\ \A i \in 1..Len(signals) : signals[i].status # CONFIRMED

\* C15: a capture of a PREAUTH payment that returns, with final false, raises
\* captured_amount by the amount given, dispatches no signal and leaves the
\* status PREAUTH; with final true it leaves the status CONFIRMED; and any
\* capture or release of a CONFIRMED payment raises ValueError.
C15_PartialCapture ==
    /\ (/\ last.op = "capture"
        /\ last.pre.status = PREAUTH
        /\ last.exc = Ok) =>
           IF last.args.final
           THEN payment.status = CONFIRMED
           ELSE /\ payment.status = PREAUTH
                /\ signals = <<>>
                /\ last.args.amount # None =>
                      payment.captured_amount =
                          last.pre.captured_amount + last.args.amount[1]
    /\ (last.op \in {"capture", "release"} /\ last.pre.status = CONFIRMED) =>
           last.exc = ValueError

\* C16: a refund of a positive amount that returns leaves the payment
\* CONFIRMED when the amount is below captured_amount, and leaves it REFUNDED
\* only when it brings captured_amount to 0; so too for payments of
\* CashOnDeliveryProvider.
C16_PartialRefund ==
    (/\ last.op = "refund"
     /\ last.pre.status = CONFIRMED
     /\ last.exc = Ok
     /\ last.args.amount # None
     /\ last.args.amount[1] > 0) =>
        /\ last.args.amount[1] < last.pre.captured_amount =>
               payment.status = CONFIRMED
        /\ payment.status = REFUNDED => payment.captured_amount = 0

\* C17: after a capture, release or refund that returns, the row agrees
\* with the instance on status and captured_amount.
C17_Persisted ==
    (last.op \in {"capture", "release", "refund"} /\ last.exc = Ok) =>
        /\ db.status = payment.status
        /\ db.captured_amount = payment.captured_amount

\* C18: when the provider method invoked by capture, release or refund
\* raises, the call raises the same exception, status and captured_amount
\* (instance and row) stay as they were, and no signal is dispatched.
C18_ProviderRaises ==
    (/\ last.op \in {"capture", "release", "refund"}
     /\ calls # <<>>
     /\ last.exc # Ok) =>
        /\ last.exc \in {PaymentError, TypeError}
        /\ payment = last.pre
        /\ db = last.predb
        /\ signals = <<>>

C18_Witness ==
    /\ last.op = "refund"
    /\ last.exc = PaymentError
    /\ calls # <<>>
    /\ last.pre.captured_amount = 1

\* C19: a REFUNDED payment has captured_amount 0.
C19_RefundedIsEmpty ==
    payment.status = REFUNDED => payment.captured_amount = 0

\* C20: captured_amount is never negative.
C20_NonNegative ==
    payment.captured_amount >= 0

====
